---- MODULE Spec2Model ----
(***************************************************************************)
(* Model of the two texture-atlas builders of BrokeCraft:                  *)
(*   misc/build_atlas.py       build_atlas()       (the Selective builder) *)
(*   misc/build_full_atlas.py  build_full_atlas()  (the Full builder)      *)
(*                                                                         *)
(* A file name is a sequence of one-character strings, so that endswith,   *)
(* str.replace and the ordering used by sorted() are computed and not      *)
(* assumed.  An image is a record holding its size and where it came from. *)
(***************************************************************************)
EXTENDS Integers, Sequences, FiniteSets, TLC

VARIABLES
    mode,           \* which script runs: "selective" or "full"
    dirExists,      \* os.path.exists(textures_dir)
    dir,            \* the directory: file name -> "absent" | "ok" | "corrupt"
    size,           \* <<width, height>> of the PNG files of the directory
    run,            \* 1 for the first run on the directory, 2 for the second
    prev,           \* what the first run produced
    pc,             \* position of the script
    all_files,      \* Full: sorted list of the *.png file names
    k,              \* position of the running loop (1-based)
    textures,       \* list of loaded / substituted images
    texture_names,  \* list of texture names
    warnings,       \* file names a WARNING line was printed for
    tex_width, tex_height,
    grid_width, grid_height,
    atlas_width, atlas_height,
    atlas,          \* paste operations applied to the atlas canvas, in order
    reference,      \* paste operations applied to the reference canvas
    labels,         \* ID labels drawn on the reference canvas
    font,           \* font used for the labels
    mapping,        \* dict name -> index, as the list of its items in key order
    written         \* output files written so far

vars == <<mode, dirExists, dir, size, run, prev, pc, all_files, k, textures,
          texture_names, warnings, tex_width, tex_height, grid_width,
          grid_height, atlas_width, atlas_height, atlas, reference, labels,
          font, mapping, written>>

---------------------------------------------------------------------------
(* Bounds of the model *)

\* Full builder: largest number of directory entries in a modelled directory
MaxFiles == 4

\* Layout specification: largest number of loaded textures
MaxTextures == 12

\* Widths and heights the PNG files of a directory may have
TileSizes == {16, 32}

---------------------------------------------------------------------------
(* Strings *)

\* The characters used by the modelled file names, in ascending code point
\* order ('.' 46 < 'B' 66 < '_' 95 < 'a' 97 < ... < 'x' 120).
Alphabet == << ".", "B", "_", "a", "b", "c", "d", "e", "g", "i", "k", "l",
               "n", "o", "p", "r", "s", "t", "x" >>

ord(c) == CHOOSE i \in 1..Len(Alphabet) : Alphabet[i] = c

PNG == << ".", "p", "n", "g" >>

\* str.__lt__ : lexicographic comparison by code point
RECURSIVE StrLess(_, _)
StrLess(s, t) ==
    IF t = << >> THEN FALSE
    ELSE IF s = << >> THEN TRUE
    ELSE IF Head(s) # Head(t) THEN ord(Head(s)) < ord(Head(t))
    ELSE StrLess(Tail(s), Tail(t))

\* str.endswith
endswith(s, suffix) ==
    /\ Len(s) >= Len(suffix)
    /\ SubSeq(s, Len(s) - Len(suffix) + 1, Len(s)) = suffix

\* str.replace(old, ''): every non-overlapping occurrence of old, scanning
\* from the left, is removed
RECURSIVE replace(_, _)
replace(s, old) ==
    IF Len(s) < Len(old) THEN s
    ELSE IF SubSeq(s, 1, Len(old)) = old
         THEN replace(SubSeq(s, Len(old) + 1, Len(s)), old)
         ELSE << Head(s) >> \o replace(Tail(s), old)

\* block_name.replace('.png', '')
TextureName(block_name) == replace(block_name, PNG)

\* insertion of x into an ascending list
RECURSIVE Insert(_, _)
Insert(x, s) ==
    IF s = << >> THEN << x >>
    ELSE IF StrLess(x, Head(s)) THEN << x >> \o s
    ELSE << Head(s) >> \o Insert(x, Tail(s))

RECURSIVE SortAsc(_)
SortAsc(s) == IF s = << >> THEN << >> ELSE Insert(Head(s), SortAsc(Tail(s)))

RECURSIVE Reverse(_)
Reverse(s) == IF s = << >> THEN << >> ELSE Append(Reverse(Tail(s)), Head(s))

\* Mutation of sorted: the list is left in the order os.listdir returned it
Unsorted(s) == s

\* Mutation of sorted: descending order
SortedDescending(s) == Reverse(SortAsc(s))

\* sorted(list of str)
sorted(s) == SortAsc(s)

\* [f for f in listing if f.endswith('.png')]
RECURSIVE OnlyPng(_)
OnlyPng(s) ==
    IF s = << >> THEN << >>
    ELSE IF endswith(Head(s), PNG) THEN << Head(s) >> \o OnlyPng(Tail(s))
    ELSE OnlyPng(Tail(s))

\* The orders in which os.listdir may return the entries S
Listings(S) ==
    { l \in [1..Cardinality(S) -> S] :
        \A i, j \in 1..Cardinality(S) : i # j => l[i] # l[j] }

---------------------------------------------------------------------------
(* dict *)

Keys(m) == [i \in 1..Len(m) |-> m[i].name]

HasKey(m, name) == \E i \in 1..Len(m) : m[i].name = name

\* m[name] = i : a present key keeps its position and takes the new value,
\* a new key is added at the end
DictSet(m, name, i) ==
    IF HasKey(m, name)
    THEN [j \in 1..Len(m) |->
            IF m[j].name = name THEN [name |-> name, index |-> i] ELSE m[j]]
    ELSE Append(m, [name |-> name, index |-> i])

---------------------------------------------------------------------------
(* Arithmetic of the layout *)

\* math.ceil(math.sqrt(n)) : the least c with c*c >= n
RECURSIVE CeilSqrtFrom(_, _)
CeilSqrtFrom(n, c) == IF c * c >= n THEN c ELSE CeilSqrtFrom(n, c + 1)

\* Mutation of CeilSqrt: the root is truncated
FloorSqrt(n) ==
    LET c == CeilSqrtFrom(n, 0) IN IF c * c = n THEN c ELSE c - 1

CeilSqrt(n) == CeilSqrtFrom(n, 0)

\* Mutation of CeilDiv: floor division
FloorDiv(a, b) == a \div b

\* math.ceil(a / b) for a >= 0, b > 0
CeilDiv(a, b) == (a + b - 1) \div b

\* Mutation of Column: the column is taken as the quotient
ColumnAsQuotient(i, gw) == i \div gw

\* x = i % grid_width
Column(i, gw) == i % gw

\* y = i // grid_width
Row(i, gw) == i \div gw

---------------------------------------------------------------------------
(* Files and images *)

StonePng    == << "s", "t", "o", "n", "e" >> \o PNG
DirtPng     == << "d", "i", "r", "t" >> \o PNG
GrassTopPng == << "g", "r", "a", "s", "s", "_", "b", "l", "o", "c", "k",
                  "_", "t", "o", "p" >> \o PNG
GrassSidePng == << "g", "r", "a", "s", "s", "_", "b", "l", "o", "c", "k",
                   "_", "s", "i", "d", "e" >> \o PNG
BedrockPng  == << "b", "e", "d", "r", "o", "c", "k" >> \o PNG

\* Mutation of REQUIRED_BLOCKS: two entries exchanged
RequiredSwapped ==
    << DirtPng, StonePng, GrassTopPng, GrassSidePng, BedrockPng >>

REQUIRED_BLOCKS ==
    << StonePng, DirtPng, GrassTopPng, GrassSidePng, BedrockPng >>

\* File names a modelled directory of the Full builder may hold.  "a.png.png"
\* and "a.pngb.png" contain ".png" twice, "B.png" starts with a capital,
\* "a.txt" is no PNG file.
FullNames ==
    { << "a" >> \o PNG,
      << "B" >> \o PNG,
      << "b" >> \o PNG,
      << "a" >> \o PNG \o PNG,
      << "a", "b" >> \o PNG,
      << "a" >> \o PNG \o << "b" >> \o PNG,
      << "a", ".", "t", "x", "t" >> }

Range(s) == { s[i] : i \in 1..Len(s) }

NamesOf(m) == IF m = "selective" THEN Range(REQUIRED_BLOCKS) ELSE FullNames

Present(d) == { f \in DOMAIN d : d[f] # "absent" }

\* The directories a run may find
Directories(m, exists) ==
    IF ~exists THEN { [f \in NamesOf(m) |-> "absent"] }
    ELSE { d \in [NamesOf(m) -> {"absent", "ok", "corrupt"}] :
             m = "full" => Cardinality(Present(d)) <= MaxFiles }

\* Side of the placeholder image
PlaceholderSize == 16

\* Image.new('RGBA', (16, 16), (255, 0, 255, 255))
Placeholder ==
    [kind |-> "placeholder", src |-> << >>,
     w |-> PlaceholderSize, h |-> PlaceholderSize]

\* Image.open(texture_path).convert('RGBA') of a readable file
Loaded(block_name) ==
    [kind |-> "file", src |-> block_name, w |-> size[1], h |-> size[2]]

\* Mutation of DirFound: the directory check always succeeds
DirFoundAlways == TRUE

\* os.path.exists(textures_dir)
DirFound == dirExists

\* os.path.exists(texture_path)
FileFound(block_name) == dirExists /\ dir[block_name] # "absent"

\* image.paste(tex, (x_offset, y_offset)) appended to the pastes of a canvas
Paste(canvas, i, tex, x_offset, y_offset) ==
    Append(canvas, [i |-> i, tex |-> tex, x |-> x_offset, y |-> y_offset])

NoRun == [outcome |-> "none", mapping |-> << >>, atlas |-> << >>,
          reference |-> << >>, labels |-> << >>, written |-> {}]

\* The variables of a run before its first statement
Fresh ==
    /\ all_files = << >>
    /\ k = 0
    /\ textures = << >>
    /\ texture_names = << >>
    /\ warnings = << >>
    /\ tex_width = 0
    /\ tex_height = 0
    /\ grid_width = 0
    /\ grid_height = 0
    /\ atlas_width = 0
    /\ atlas_height = 0
    /\ atlas = << >>
    /\ reference = << >>
    /\ labels = << >>
    /\ font = "none"
    /\ mapping = << >>
    /\ written = {}

Init ==
    /\ mode \in {"selective", "full"}
    /\ dirExists \in BOOLEAN
    /\ dir \in Directories(mode, dirExists)
    /\ size \in TileSizes \X TileSizes
    /\ run = 1
    /\ prev = NoRun
    /\ pc = "start"
    /\ Fresh

fsVars == <<mode, dirExists, dir, size, run, prev>>
loadVars == <<all_files, textures, texture_names, warnings>>
layoutVars == <<tex_width, tex_height, grid_width, grid_height,
                atlas_width, atlas_height>>
canvasVars == <<atlas, reference, labels, font, mapping>>

---------------------------------------------------------------------------
(* build_atlas.py : build_atlas() *)

\* if not os.path.exists(textures_dir): print ERROR; return
S_DirMissing ==
    /\ mode = "selective" /\ pc = "start"
    /\ ~DirFound
    /\ pc' = "aborted"
    /\ UNCHANGED <<fsVars, k, loadVars, layoutVars, canvasVars, written>>

\* the directory exists: textures = [], texture_names = [], enter the loop
S_DirFound ==
    /\ mode = "selective" /\ pc = "start"
    /\ DirFound
    /\ pc' = "load"
    /\ k' = 1
    /\ textures' = << >>
    /\ texture_names' = << >>
    /\ UNCHANGED <<fsVars, all_files, warnings, layoutVars, canvasVars, written>>

\* loop body, the file is absent: warning, magenta placeholder
S_LoadMissing ==
    /\ mode = "selective" /\ pc = "load"
    /\ k <= Len(REQUIRED_BLOCKS)
    /\ LET block_name == REQUIRED_BLOCKS[k] IN
        /\ ~FileFound(block_name)
        /\ warnings' = Append(warnings, block_name)
        /\ textures' = Append(textures, Placeholder)
        /\ texture_names' = Append(texture_names, TextureName(block_name))
    /\ k' = k + 1
    /\ UNCHANGED <<fsVars, pc, all_files, layoutVars, canvasVars, written>>

\* loop body, the file is there and Image.open(...).convert('RGBA') succeeds
S_LoadFile ==
    /\ mode = "selective" /\ pc = "load"
    /\ k <= Len(REQUIRED_BLOCKS)
    /\ LET block_name == REQUIRED_BLOCKS[k] IN
        /\ FileFound(block_name)
        /\ dir[block_name] = "ok"
        /\ textures' = Append(textures, Loaded(block_name))
        /\ texture_names' = Append(texture_names, TextureName(block_name))
    /\ k' = k + 1
    /\ UNCHANGED <<fsVars, pc, all_files, warnings, layoutVars, canvasVars,
                   written>>

\* loop body, the file is there and Image.open(...) raises: no handler
\* encloses the call, the exception ends the script
S_LoadRaises ==
    /\ mode = "selective" /\ pc = "load"
    /\ k <= Len(REQUIRED_BLOCKS)
    /\ LET block_name == REQUIRED_BLOCKS[k] IN
        /\ FileFound(block_name)
        /\ dir[block_name] = "corrupt"
    /\ pc' = "crashed"
    /\ UNCHANGED <<fsVars, k, loadVars, layoutVars, canvasVars, written>>

\* end of the loop; tile size from textures[0], atlas dimensions, new canvas
S_Layout ==
    /\ mode = "selective" /\ pc = "load"
    /\ k > Len(REQUIRED_BLOCKS)
    /\ IF textures # << >>
       THEN /\ tex_width' = textures[1].w
            /\ tex_height' = textures[1].h
            /\ atlas_width' = textures[1].w * Len(textures)
            /\ atlas_height' = textures[1].h
            /\ atlas' = << >>
            /\ mapping' = << >>
            /\ k' = 1
            /\ pc' = "paste"
       ELSE /\ pc' = "aborted"
            /\ UNCHANGED <<k, tex_width, tex_height, atlas_width,
                           atlas_height, atlas, mapping>>
    /\ UNCHANGED <<fsVars, loadVars, grid_width, grid_height, reference,
                   labels, font, written>>

\* for i, (tex, name) in enumerate(zip(textures, texture_names)), i = k - 1
S_Paste ==
    /\ mode = "selective" /\ pc = "paste"
    /\ k <= Len(textures) /\ k <= Len(texture_names)
    /\ LET i == k - 1
           x_offset == i * tex_width
       IN /\ atlas' = Paste(atlas, i, textures[k], x_offset, 0)
          /\ mapping' = DictSet(mapping, texture_names[k], i)
    /\ k' = k + 1
    /\ UNCHANGED <<fsVars, pc, loadVars, layoutVars, reference, labels, font,
                   written>>

\* atlas.save(output_atlas)
S_SaveAtlas ==
    /\ mode = "selective" /\ pc = "paste"
    /\ ~(k <= Len(textures) /\ k <= Len(texture_names))
    /\ written' = written \cup {"atlas"}
    /\ pc' = "save_mapping"
    /\ UNCHANGED <<fsVars, k, loadVars, layoutVars, canvasVars>>

\* json.dump(mapping, f, indent=2), then the report
S_SaveMapping ==
    /\ mode = "selective" /\ pc = "save_mapping"
    /\ written' = written \cup {"mapping"}
    /\ pc' = "done"
    /\ UNCHANGED <<fsVars, k, loadVars, layoutVars, canvasVars>>

---------------------------------------------------------------------------
(* build_full_atlas.py : build_full_atlas() *)

\* if not os.path.exists(textures_dir): print ERROR; return
F_DirMissing ==
    /\ mode = "full" /\ pc = "start"
    /\ ~DirFound
    /\ pc' = "aborted"
    /\ UNCHANGED <<fsVars, k, loadVars, layoutVars, canvasVars, written>>

\* all_files = sorted([f for f in os.listdir(textures_dir)
\*                     if f.endswith('.png')]); textures = []; ...
F_Scan ==
    /\ mode = "full" /\ pc = "start"
    /\ DirFound
    /\ \E listing \in Listings(Present(dir)) :
          all_files' = sorted(OnlyPng(listing))
    /\ textures' = << >>
    /\ texture_names' = << >>
    /\ k' = 1
    /\ pc' = "load"
    /\ UNCHANGED <<fsVars, warnings, layoutVars, canvasVars, written>>

\* loop body, the try block succeeds
F_LoadFile ==
    /\ mode = "full" /\ pc = "load"
    /\ k <= Len(all_files)
    /\ LET block_name == all_files[k] IN
        /\ dir[block_name] = "ok"
        /\ textures' = Append(textures, Loaded(block_name))
        /\ texture_names' = Append(texture_names, TextureName(block_name))
    /\ k' = k + 1
    /\ UNCHANGED <<fsVars, pc, all_files, warnings, layoutVars, canvasVars,
                   written>>

\* loop body, Image.open(...) raises: except Exception prints a warning
F_LoadFails ==
    /\ mode = "full" /\ pc = "load"
    /\ k <= Len(all_files)
    /\ LET block_name == all_files[k] IN
        /\ dir[block_name] # "ok"
        /\ warnings' = Append(warnings, block_name)
    /\ k' = k + 1
    /\ UNCHANGED <<fsVars, pc, all_files, textures, texture_names, layoutVars,
                   canvasVars, written>>

\* end of the loop
F_Loaded ==
    /\ mode = "full" /\ pc = "load"
    /\ k > Len(all_files)
    /\ pc' = "loaded"
    /\ UNCHANGED <<fsVars, k, loadVars, layoutVars, canvasVars, written>>

\* if not textures: print ERROR; return
F_NoTextures ==
    /\ mode = "full" /\ pc = "loaded"
    /\ textures = << >>
    /\ pc' = "aborted"
    /\ UNCHANGED <<fsVars, k, loadVars, layoutVars, canvasVars, written>>

\* tile size from textures[0], grid, atlas dimensions, the two new canvases
F_Layout ==
    /\ mode = "full" /\ pc = "loaded"
    /\ textures # << >>
    /\ LET num_textures == Len(textures)
           gw == CeilSqrt(num_textures)
           gh == CeilDiv(num_textures, gw)
       IN /\ tex_width' = textures[1].w
          /\ tex_height' = textures[1].h
          /\ grid_width' = gw
          /\ grid_height' = gh
          /\ atlas_width' = textures[1].w * gw
          /\ atlas_height' = textures[1].h * gh
    /\ atlas' = << >>
    /\ reference' = << >>
    /\ mapping' = << >>
    /\ k' = 1
    /\ pc' = "paste"
    /\ UNCHANGED <<fsVars, loadVars, labels, font, written>>

\* for i, (tex, name) in enumerate(zip(textures, texture_names)), i = k - 1
F_Paste ==
    /\ mode = "full" /\ pc = "paste"
    /\ k <= Len(textures) /\ k <= Len(texture_names)
    /\ LET i == k - 1
           x == Column(i, grid_width)
           y == Row(i, grid_width)
           x_offset == x * tex_width
           y_offset == y * tex_height
       IN /\ atlas' = Paste(atlas, i, textures[k], x_offset, y_offset)
          /\ reference' = Paste(reference, i, textures[k], x_offset, y_offset)
          /\ mapping' = DictSet(mapping, texture_names[k], i)
    /\ k' = k + 1
    /\ UNCHANGED <<fsVars, pc, loadVars, layoutVars, labels, font, written>>

\* end of the paste loop; draw = ImageDraw.Draw(reference)
F_Pasted ==
    /\ mode = "full" /\ pc = "paste"
    /\ ~(k <= Len(textures) /\ k <= Len(texture_names))
    /\ pc' = "font"
    /\ UNCHANGED <<fsVars, k, loadVars, layoutVars, canvasVars, written>>

\* font = ImageFont.truetype("arial.ttf", 10)
F_FontFound ==
    /\ mode = "full" /\ pc = "font"
    /\ font' = "arial.ttf"
    /\ labels' = << >>
    /\ k' = 1
    /\ pc' = "label"
    /\ UNCHANGED <<fsVars, loadVars, layoutVars, atlas, reference, mapping,
                   written>>

\* truetype raises: except: font = ImageFont.load_default()
F_FontDefault ==
    /\ mode = "full" /\ pc = "font"
    /\ font' = "default"
    /\ labels' = << >>
    /\ k' = 1
    /\ pc' = "label"
    /\ UNCHANGED <<fsVars, loadVars, layoutVars, atlas, reference, mapping,
                   written>>

\* for i, name in enumerate(texture_names): rectangle and text at the cell
F_Label ==
    /\ mode = "full" /\ pc = "label"
    /\ k <= Len(texture_names)
    /\ LET i == k - 1
           x == Column(i, grid_width)
           y == Row(i, grid_width)
           x_offset == x * tex_width
           y_offset == y * tex_height
       IN labels' = Append(labels, [text |-> i, x |-> x_offset, y |-> y_offset,
                                    w |-> tex_width \div 2, h |-> 10,
                                    font |-> font])
    /\ k' = k + 1
    /\ UNCHANGED <<fsVars, pc, loadVars, layoutVars, atlas, reference, font,
                   mapping, written>>

\* atlas.save(output_atlas)
F_SaveAtlas ==
    /\ mode = "full" /\ pc = "label"
    /\ k > Len(texture_names)
    /\ written' = written \cup {"atlas"}
    /\ pc' = "save_reference"
    /\ UNCHANGED <<fsVars, k, loadVars, layoutVars, canvasVars>>

\* reference.save(output_reference)
F_SaveReference ==
    /\ mode = "full" /\ pc = "save_reference"
    /\ written' = written \cup {"reference"}
    /\ pc' = "save_mapping"
    /\ UNCHANGED <<fsVars, k, loadVars, layoutVars, canvasVars>>

\* json.dump(mapping, f, indent=2), then the report
F_SaveMapping ==
    /\ mode = "full" /\ pc = "save_mapping"
    /\ written' = written \cup {"mapping"}
    /\ pc' = "done"
    /\ UNCHANGED <<fsVars, k, loadVars, layoutVars, canvasVars>>

---------------------------------------------------------------------------
(* Running the script a second time on the unchanged directory *)

Ended == pc \in {"done", "aborted", "crashed"}

Rerun ==
    /\ Ended
    /\ run = 1
    /\ run' = 2
    /\ prev' = [outcome |-> pc, mapping |-> mapping, atlas |-> atlas,
                reference |-> reference, labels |-> labels,
                written |-> written]
    /\ pc' = "start"
    /\ all_files' = << >>
    /\ k' = 0
    /\ textures' = << >>
    /\ texture_names' = << >>
    /\ warnings' = << >>
    /\ tex_width' = 0
    /\ tex_height' = 0
    /\ grid_width' = 0
    /\ grid_height' = 0
    /\ atlas_width' = 0
    /\ atlas_height' = 0
    /\ atlas' = << >>
    /\ reference' = << >>
    /\ labels' = << >>
    /\ font' = "none"
    /\ mapping' = << >>
    /\ written' = {}
    /\ UNCHANGED <<mode, dirExists, dir, size>>

Next ==
    \/ S_DirMissing \/ S_DirFound \/ S_LoadMissing \/ S_LoadFile
    \/ S_LoadRaises \/ S_Layout \/ S_Paste \/ S_SaveAtlas \/ S_SaveMapping
    \/ F_DirMissing \/ F_Scan \/ F_LoadFile \/ F_LoadFails \/ F_Loaded
    \/ F_NoTextures \/ F_Layout \/ F_Paste \/ F_Pasted \/ F_FontFound
    \/ F_FontDefault \/ F_Label \/ F_SaveAtlas \/ F_SaveReference
    \/ F_SaveMapping
    \/ Rerun

Spec == Init /\ [][Next]_vars

---------------------------------------------------------------------------
(* The Full builder on directories of up to MaxTextures readable files     *)
(* a.png, aa.png, aaa.png, ..., taken up where the load loop has ended.    *)

AName(j) == [i \in 1..j |-> "a"]

LayoutInit ==
    /\ mode = "full"
    /\ dirExists = TRUE
    /\ size \in TileSizes \X TileSizes
    /\ run = 1
    /\ prev = NoRun
    /\ \E n \in 0..MaxTextures :
        /\ dir = [f \in { AName(j) \o PNG : j \in 1..n } |-> "ok"]
        /\ all_files = [j \in 1..n |-> AName(j) \o PNG]
        /\ textures = [j \in 1..n |-> Loaded(AName(j) \o PNG)]
        /\ texture_names = [j \in 1..n |-> TextureName(AName(j) \o PNG)]
        /\ k = n + 1
    /\ pc = "load"
    /\ warnings = << >>
    /\ tex_width = 0 /\ tex_height = 0
    /\ grid_width = 0 /\ grid_height = 0
    /\ atlas_width = 0 /\ atlas_height = 0
    /\ atlas = << >> /\ reference = << >> /\ labels = << >>
    /\ font = "none"
    /\ mapping = << >>
    /\ written = {}

LayoutNext ==
    \/ F_Loaded \/ F_NoTextures \/ F_Layout \/ F_Paste \/ F_Pasted
    \/ F_FontFound \/ F_FontDefault \/ F_Label \/ F_SaveAtlas
    \/ F_SaveReference \/ F_SaveMapping

LayoutSpec == LayoutInit /\ [][LayoutNext]_vars

---------------------------------------------------------------------------
(* Vocabulary of the properties *)

Stone     == << "s", "t", "o", "n", "e" >>
Dirt      == << "d", "i", "r", "t" >>
GrassTop  == << "g", "r", "a", "s", "s", "_", "b", "l", "o", "c", "k",
                "_", "t", "o", "p" >>
GrassSide == << "g", "r", "a", "s", "s", "_", "b", "l", "o", "c", "k",
                "_", "s", "i", "d", "e" >>
Bedrock   == << "b", "e", "d", "r", "o", "c", "k" >>

ExpectedNames == << Stone, Dirt, GrassTop, GrassSide, Bedrock >>

ExpectedFiles == [i \in 1..5 |-> ExpectedNames[i] \o PNG]

\* the source list is complete: the load loop has ended normally
SourceListed ==
    \/ mode = "selective" /\ pc \in {"paste", "save_mapping", "done"}
    \/ mode = "full" /\ pc \in {"loaded", "paste", "font", "label",
                                "save_reference", "save_mapping", "done"}

\* the composition loop has ended
Composed ==
    \/ mode = "selective" /\ pc \in {"save_mapping", "done"}
    \/ mode = "full" /\ pc \in {"font", "label", "save_reference",
                                "save_mapping", "done"}

\* the grid has been computed (Full builder)
LaidOut ==
    mode = "full" /\ pc \in {"paste", "font", "label", "save_reference",
                             "save_mapping", "done"}

\* the PNG files of the directory that load
LoadablePng == { f \in DOMAIN dir : endswith(f, PNG) /\ dir[f] = "ok" }

\* the fatal conditions: no directory, or (Full) no texture loads
Fatal == ~dirExists \/ (mode = "full" /\ LoadablePng = {})

Outputs ==
    IF mode = "selective" THEN {"atlas", "mapping"}
    ELSE {"atlas", "reference", "mapping"}

Distinct(s) == \A i, j \in 1..Len(s) : i # j => s[i] # s[j]

\* grid cell of a paste or of a label
CellOf(p) == << p.x \div tex_width, p.y \div tex_height >>

---------------------------------------------------------------------------
(* C1 *)

\* C1: after the composition loop the mapping has one key per entry of the
\* source list, the texture names are pairwise distinct, and the k-th key in
\* insertion order has the value k (so the values are 0..n-1, each once).
C1_MappingOnePerEntry ==
    Composed =>
        /\ Len(mapping) = Len(textures)
        /\ Distinct(texture_names)
        /\ Keys(mapping) = texture_names
        /\ \A j \in 1..Len(mapping) : mapping[j].index = j - 1

---------------------------------------------------------------------------
(* C2 *)

\* C2: when the source directory does not exist, or the Full builder finds
\* no PNG file that loads, no output file is ever written, in neither run,
\* and the run can only end by the early return.
C2_FatalWritesNothing ==
    Fatal =>
        /\ written = {}
        /\ prev.written = {}
        /\ ~Composed
        /\ Ended => pc = "aborted"

\* a Full run has returned early from a directory whose PNG files all failed
C2_Witness ==
    /\ mode = "full" /\ dirExists /\ pc = "aborted"
    /\ Len(warnings) >= 2
    /\ written = {}

---------------------------------------------------------------------------
(* C3 *)

\* C3: when the directory exists and the fatal zero-texture condition does
\* not hold, a run that has ended has reached its last statement and has
\* written all of its output files, whether the individual files are present,
\* missing or corrupt.
C3_AlwaysCompletes ==
    (Ended /\ ~Fatal) => (pc = "done" /\ written = Outputs)

---------------------------------------------------------------------------
(* C4 *)

\* C4: in the Selective builder the source list has the 5 entries stone,
\* dirt, grass_block_top, grass_block_side, bedrock in this order; entry i is
\* the placeholder exactly when the i-th required file is missing, with one
\* warning per missing file; the canvas is 5 tiles wide and one tile high;
\* the mapping is {stone:0, dirt:1, grass_block_top:2, grass_block_side:3,
\* bedrock:4}.
C4_SelectiveList ==
    (mode = "selective" /\ SourceListed) =>
        /\ Len(textures) = 5
        /\ texture_names = ExpectedNames
        /\ \A i \in 1..5 :
              /\ textures[i].kind = "placeholder"
                   <=> dir[ExpectedFiles[i]] = "absent"
              /\ textures[i].kind = "file"
                   <=> textures[i].src = ExpectedFiles[i]
        /\ warnings = SelectSeq(ExpectedFiles, LAMBDA f : dir[f] = "absent")
        /\ atlas_width = 5 * tex_width
        /\ atlas_height = tex_height
        /\ (\A f \in DOMAIN dir : dir[f] = "ok") =>
              (atlas_width = 5 * size[1] /\ atlas_height = size[2])
        /\ Composed =>
              /\ mapping = [i \in 1..5 |->
                              [name |-> ExpectedNames[i], index |-> i - 1]]
              /\ \A i \in 1..5 : /\ atlas[i].tex = textures[i]
                                 /\ atlas[i].x = (i - 1) * tex_width
                                 /\ atlas[i].y = 0

\* a Selective run has ended with bedrock.png missing and the others loaded
C4_Witness ==
    /\ mode = "selective" /\ pc = "done"
    /\ dir[BedrockPng] = "absent"
    /\ \A i \in 1..4 : textures[i].kind = "file"
    /\ textures[5].kind = "placeholder"
    /\ warnings = << BedrockPng >>

---------------------------------------------------------------------------
(* C5 *)

\* C5: in the Selective builder every placeholder has the width and height
\* of the first loaded texture of the run, and the tile size used for the
\* canvas is the size of the loaded textures.
C5_PlaceholderMatchesLoaded ==
    (mode = "selective" /\ SourceListed) =>
        \A j \in 1..Len(textures) :
            (/\ textures[j].kind = "file"
             /\ \A i \in 1..(j - 1) : textures[i].kind = "placeholder")
            => /\ \A i \in 1..Len(textures) :
                    textures[i].kind = "placeholder"
                    => (textures[i].w = textures[j].w
                        /\ textures[i].h = textures[j].h)
               /\ tex_width = textures[j].w
               /\ tex_height = textures[j].h

---------------------------------------------------------------------------
(* C6 *)

\* C6: in the Full builder cols is the ceiling of the square root of n
\* (cols^2 >= n > (cols-1)^2), rows is the ceiling of n / cols
\* (rows*cols >= n > (rows-1)*cols), the canvas is (cols*tileWidth,
\* rows*tileHeight), and cols*rows - n cells stay unused; for n = 10 the grid
\* is 4 x 3 with two unused cells.
C6_GridFormula ==
    LaidOut =>
        LET n == Len(textures)
            used == { CellOf(atlas[j]) : j \in 1..Len(atlas) }
            cells == (0..(grid_width - 1)) \X (0..(grid_height - 1))
        IN /\ n >= 1
           /\ grid_width * grid_width >= n
           /\ (grid_width - 1) * (grid_width - 1) < n
           /\ grid_height * grid_width >= n
           /\ (grid_height - 1) * grid_width < n
           /\ tex_width = size[1] /\ tex_height = size[2]
           /\ atlas_width = grid_width * tex_width
           /\ atlas_height = grid_height * tex_height
           /\ Composed =>
                 Cardinality(cells \ used) = grid_width * grid_height - n
           /\ n = 10 =>
                 /\ grid_width = 4 /\ grid_height = 3
                 /\ Composed => Cardinality(cells \ used) = 2

\* the Full builder has finished an atlas of 10 textures
C6_Witness ==
    /\ mode = "full" /\ pc = "done"
    /\ Len(textures) = 10 /\ Len(atlas) = 10
    /\ grid_width = 4 /\ grid_height = 3

---------------------------------------------------------------------------
(* C7 *)

\* C7 as stated: the grid is the smallest rectangle no narrower than tall
\* that fits n items: cols >= rows, cols*rows >= n, and no (c, r) with
\* c >= r and c*r >= n has fewer cells.
C7_SmallestWideRectangle ==
    LaidOut =>
        LET n == Len(textures) IN
        /\ grid_width >= grid_height
        /\ grid_width * grid_height >= n
        /\ \A c, r \in 1..(n + 1) :
              (c >= r /\ c * r >= n) => c * r >= grid_width * grid_height

\* C7 amended: the grid is the smallest near-square rectangle that fits n
\* items: cols >= rows, cols - rows <= 1, cols*rows >= n, and no (c, r) with
\* c >= r, c - r <= 1 and c*r >= n has fewer cells.
C7_SmallestNearSquare ==
    LaidOut =>
        LET n == Len(textures) IN
        /\ grid_width >= grid_height
        /\ grid_width - grid_height <= 1
        /\ grid_width * grid_height >= n
        /\ \A c, r \in 1..(n + 1) :
              (c >= r /\ c - r <= 1 /\ c * r >= n)
              => c * r >= grid_width * grid_height

\* the Full builder has laid out 5 textures on a 3 x 2 grid, where a 5 x 1
\* strip has fewer cells
C7_Witness ==
    /\ mode = "full" /\ pc = "done"
    /\ Len(textures) = 5
    /\ grid_width = 3 /\ grid_height = 2

---------------------------------------------------------------------------
(* C8 *)

\* C8: in the Full builder the i-th paste (i from 0) goes to column
\* i mod cols and row i div cols, with 0 <= column < cols, 0 <= row < rows and
\* i = row*cols + column; two pastes never share a cell; the reference canvas
\* and the labels use the same placement.
C8_Placement ==
    LaidOut =>
        /\ \A j \in 1..Len(atlas) :
              LET p == atlas[j]
                  column == CellOf(p)[1]
                  row == CellOf(p)[2]
              IN /\ p.i = j - 1
                 /\ p.x = column * tex_width
                 /\ p.y = row * tex_height
                 /\ 0 <= column /\ column < grid_width
                 /\ 0 <= row /\ row < grid_height
                 /\ p.i = row * grid_width + column
                 /\ column = p.i % grid_width
                 /\ row = p.i \div grid_width
        /\ \A i, j \in 1..Len(atlas) :
              i # j => CellOf(atlas[i]) # CellOf(atlas[j])
        /\ reference = atlas
        /\ \A j \in 1..Len(labels) :
              /\ labels[j].text = atlas[j].i
              /\ labels[j].x = atlas[j].x
              /\ labels[j].y = atlas[j].y
        /\ Composed => Len(atlas) = Len(textures)
        /\ pc \in {"save_reference", "save_mapping", "done"}
              => Len(labels) = Len(textures)

\* the Full builder has placed and labelled 7 textures; the last row of the
\* 3 x 3 grid is partly filled
C8_Witness ==
    /\ mode = "full" /\ pc = "done"
    /\ Len(atlas) = 7 /\ Len(labels) = 7
    /\ CellOf(atlas[7]) = << 0, 2 >>

---------------------------------------------------------------------------
(* C9 *)

\* C9: the second run on the unchanged directory ends as the first did, with
\* the same mapping (keys, values, key order), the same tile in every cell
\* and the same files written, whatever order the directory listing has in
\* either run.
C9_SecondRunSame ==
    (run = 2 /\ Ended) =>
        /\ pc = prev.outcome
        /\ mapping = prev.mapping
        /\ atlas = prev.atlas
        /\ written = prev.written

\* the Full builder has finished its second run on three or more textures
C9_Witness ==
    /\ run = 2 /\ pc = "done" /\ mode = "full"
    /\ Len(atlas) >= 3
    /\ prev.outcome = "done"

---------------------------------------------------------------------------
(* C10 *)

\* C10: in the Full builder the loaded textures are in ascending code point
\* order of their file names, a file that fails to load is skipped (warned
\* about) and takes no index, the textures are exactly the PNG files that
\* load, the i-th loaded texture is pasted with index i (0..n-1, no gaps),
\* and textures and texture_names have the same length and are aligned.
C10_SortedNoGaps ==
    mode = "full" =>
        /\ Len(textures) = Len(texture_names)
        /\ \A j \in 1..Len(textures) :
              /\ textures[j].kind = "file"
              /\ texture_names[j] = replace(textures[j].src, PNG)
        /\ \A i, j \in 1..Len(textures) :
              i < j => StrLess(textures[i].src, textures[j].src)
        /\ SourceListed =>
              /\ { textures[j].src : j \in 1..Len(textures) } = LoadablePng
              /\ Range(warnings)
                   = { f \in DOMAIN dir : endswith(f, PNG) /\ dir[f] = "corrupt" }
        /\ \A j \in 1..Len(atlas) :
              /\ atlas[j].i = j - 1
              /\ atlas[j].tex = textures[j]
        /\ Composed => Len(atlas) = Len(textures)

\* a Full run has ended after skipping a corrupt file that sorts between two
\* loaded ones
C10_Witness ==
    /\ mode = "full" /\ pc = "done"
    /\ Len(textures) >= 2
    /\ \E f \in Range(warnings) :
          /\ StrLess(textures[1].src, f)
          /\ StrLess(f, textures[2].src)
    /\ atlas[2].i = 1

====
